---- MODULE Spec2Model ----
(***************************************************************************)
(* Model of server/index.js: the trade store (SQLite table `trades`), the  *)
(* POST /api/backfill handler with its per-exchange connectors and         *)
(* p-retry loop, and the computeClusters aggregator behind                 *)
(* GET /api/top-clusters.                                                  *)
(*                                                                         *)
(* Node runs the handlers on one thread: a handler runs without            *)
(* interruption from one `await` to the next, so every action below is one *)
(* such stretch of code (including all the inserts it performs).           *)
(*                                                                         *)
(* Numbers: times are milliseconds; prices and bucket sizes are fixed-point *)
(* integers in units of 1e-9 (1002 is 0.000001002), quantities in tenths,   *)
(* so that Math.round and toFixed(8) are exact.                             *)
(***************************************************************************)
EXTENDS Integers, Sequences, FiniteSets, TLC

VARIABLES
  now,        \* Date.now()
  store,      \* rows of table `trades`
  pc,         \* per call: where the async handler is suspended
  req,        \* per call: the request body and the resolved range
  win,        \* per call: loop variable `s` of the window loop
  attempt,    \* per call: connector invocations made by the current pRetry
  response,   \* per call: sequence of HTTP statuses sent with res.json
  inflight,   \* outbound axios requests not yet settled
  failure,    \* per call: the exception caught by the handler's catch
  received,   \* history: per call, the bodies its fetches resolved with
  added,      \* history: per call, the rows its inserts added to the table
  ingested,   \* history: ids handed to insertTrade that returned normally
  doneBefore, \* history: per call, the calls that had ended when it began
  requested,  \* history: per call, the startTime..endTime its requests carried
  randoms,    \* number of Math.random() values drawn so far
  query,      \* the last GET /api/top-clusters: its parameters as resolved
  clusters    \* the clusters it answered with

vars == <<now, store, pc, req, win, attempt, response, inflight, failure,
          received, added, ingested, doneBefore, requested, randoms, query,
          clusters>>

-----------------------------------------------------------------------------
(* Bounds of the model *)

MaxCalls == 2       \* backfill requests served during a run
MaxTicks == 1       \* times the clock is observed to advance
MaxRandoms == 4     \* Math.random() values drawn during a run
BaseHours == 100    \* the clock starts at BaseHours hours

Calls == 1..MaxCalls

-----------------------------------------------------------------------------
(* Program constants *)

windowMs == 60*60*1000
dayMs == 24*3600*1000
binanceRetries == 3
recentRetries == 2

Now0 == BaseHours * windowMs
TickMs == windowMs \div 2

-----------------------------------------------------------------------------
(* Inputs: request bodies and connector payloads *)

\* Request bodies {symbol, exchange, startTs, endTs}.  "" stands for a missing
\* string field, 0 for a missing number.
ReqBody(symbol, exchange, startTs, endTs) ==
  [symbol |-> symbol, exchange |-> exchange, startTs |-> startTs, endTs |-> endTs]

TwoWindows == <<Now0 - 2 * windowMs, Now0>>
UntilNow == <<Now0 - windowMs, 0>>                \* endTs missing
FromYesterday == <<0, Now0 - 23 * windowMs>>      \* startTs missing
EmptyRange == <<Now0, Now0 - windowMs>>

RequestInputs ==
  { ReqBody("", "binance", 0, 0), ReqBody("BTCUSDT", "", 0, 0) }
  \cup { ReqBody("BTCUSDT", "kraken", rg[1], rg[2]) : rg \in {TwoWindows} }
  \cup { ReqBody("BTCUSDT", "binance", rg[1], rg[2]) :
           rg \in {TwoWindows, UntilNow, FromYesterday, EmptyRange} }
  \cup { ReqBody("ETHUSDT", "binance", rg[1], rg[2]) : rg \in {FromYesterday} }
  \cup { ReqBody("BTCUSDT", x, rg[1], rg[2]) :
           x \in {"okx", "bybit"}, rg \in {TwoWindows, FromYesterday} }

\* A value better-sqlite3 cannot bind (a JSON boolean or object).
Unbindable == -1

tOld == Now0 - 30 * windowMs
tA == Now0 - windowMs
tB == Now0 - 7

\* The n-th value Math.random() returns, rendered into a template string.
\* Successive values differ.
Random(n) == "0." \o ToString(n)

\* m is the JSON boolean true ("true"), false ("false"), a string ("str:true")
\* or absent ("").
\* Binance aggTrades elements.  a/aggregateId/tradeId 0: field absent.
B1 == [a |-> 1, aggregateId |-> 0, tradeId |-> 0, p |-> 1002, q |-> 10, m |-> "true", T |-> tA]
B2 == [a |-> 1, aggregateId |-> 0, tradeId |-> 0, p |-> 1006, q |-> 20, m |-> "false", T |-> tB]
B3 == [a |-> 0, aggregateId |-> 0, tradeId |-> 0, p |-> 1004, q |-> 10, m |-> "", T |-> 0]
B4 == [a |-> 0, aggregateId |-> 0, tradeId |-> 2, p |-> 1016, q |-> 30, m |-> "str:true", T |-> tOld]
B5 == [a |-> 3, aggregateId |-> 0, tradeId |-> 0, p |-> 1002, q |-> 10, m |-> "true", T |-> Unbindable]

\* OKX trades elements.  ts is a decimal string ("" absent), given by its value.
O1 == [ts |-> tA, tradeId |-> 11, p |-> 1002, sz |-> 10, qty |-> 0, side |-> "sell"]
O2 == [ts |-> tA, tradeId |-> 12, p |-> 1006, sz |-> 0, qty |-> 20, side |-> "buy"]
O3 == [ts |-> 0, tradeId |-> 13, p |-> 1004, sz |-> 10, qty |-> 0, side |-> "S"]
O4 == [ts |-> tB, tradeId |-> 14, p |-> 1016, sz |-> 30, qty |-> 0, side |-> "Sell"]

\* Bybit recent-trading-records elements.  id is the exchange's trade id, a
\* field the handler does not read; side "": field absent.
Y1 == [id |-> 21, trade_time_ms |-> tA, price |-> 1002, qty |-> 10, size |-> 0, side |-> "Sell"]
Y2 == [id |-> 22, trade_time_ms |-> tB, price |-> 1006, qty |-> 0, size |-> 20, side |-> "sell"]
Y3 == [id |-> 23, trade_time_ms |-> tOld, price |-> 1004, qty |-> 10, size |-> 0, side |-> "Buy"]
Y4 == [id |-> 24, trade_time_ms |-> tOld, price |-> 1016, qty |-> 0, size |-> 30, side |-> ""]

\* What one fetch may resolve with (r.data).  usable: the body passes the
\* handler's test (Array.isArray(data) && data.length, data && data.data,
\* data && data.result); items: the array the handler then iterates.
Body(usable, items) == [usable |-> usable, items |-> items]

BinanceBodies == { Body(FALSE, <<>>), Body(TRUE, <<B1>>), Body(TRUE, <<B2, B4>>),
                   Body(TRUE, <<B3>>), Body(TRUE, <<B4, B5, B1>>) }
OkxBodies == { Body(FALSE, <<>>), Body(TRUE, <<O1, O2>>), Body(TRUE, <<O3, O4>>) }
BybitBodies == { Body(FALSE, <<>>), Body(TRUE, <<Y1, Y2>>), Body(TRUE, <<Y3, Y4>>) }

Bodies(exchange) ==
  CASE exchange = "binance" -> BinanceBodies
    [] exchange = "okx" -> OkxBodies
    [] OTHER -> BybitBodies

-----------------------------------------------------------------------------
(* Trade store *)

\* better-sqlite3 binds numbers, strings, bigints, buffers and null only.
Bindable(trade) == trade.ts # Unbindable

\* Mutant: INSERT OR REPLACE, the new row takes the place of the old one.
insertTrade_replace(st, trade) ==
  IF ~Bindable(trade) THEN [store |-> st, error |-> "TypeError"]
  ELSE [store |-> {r \in st : r.id # trade.id} \cup {trade}, error |-> "none"]

\* Mutant: plain INSERT, a taken primary key raises.
insertTrade_plain(st, trade) ==
  IF ~Bindable(trade) THEN [store |-> st, error |-> "TypeError"]
  ELSE IF \E r \in st : r.id = trade.id THEN [store |-> st, error |-> "SQLITE_CONSTRAINT"]
  ELSE [store |-> st \cup {trade}, error |-> "none"]

\* INSERT OR IGNORE INTO trades ...: the row is added unless its primary key
\* is taken.  error: the exception stmt.run throws, "none" if it returns.
insertTrade(st, trade) ==
  IF ~Bindable(trade) THEN [store |-> st, error |-> "TypeError"]
  ELSE IF \E r \in st : r.id = trade.id THEN [store |-> st, error |-> "none"]
  ELSE [store |-> st \cup {trade}, error |-> "none"]

-----------------------------------------------------------------------------
(* Normalisation of connector payloads *)

\* a || b: JavaScript's first truthy operand (0 and "" are falsy).
Or(a, b) == IF a # 0 THEN a ELSE b

Row(id, exchange, symbol, price, qty, side, ts) ==
  [id |-> id, exchange |-> exchange, symbol |-> symbol, price |-> price,
   qty |-> qty, side |-> side, ts |-> ts]

\* Mutant: the chain stops before t.tradeId.
binanceKey_short(t) == Or(t.a, t.aggregateId)

\* The exchange's own identifier the id is built from: the || chain before
\* Math.random().  0: every operand is falsy.
binanceKey(t) == Or(t.a, Or(t.aggregateId, t.tradeId))

okxKey(t) == Or(t.ts, t.tradeId)

bybitKey(t) == t.trade_time_ms

\* `${key || Math.random()}`
Key(key, rnd) == IF key # 0 THEN ToString(key) ELSE rnd

\* Mutant: t.m ? 'sell' : 'buy', any truthy m is a sell.
binanceTrade_truthy(symbol, t, rnd, clock) ==
  Row(symbol \o "-binance-" \o Key(binanceKey(t), rnd), "binance", symbol, t.p, t.q,
      IF t.m \notin {"false", ""} THEN "sell" ELSE "buy", Or(t.T, clock))

binanceTrade(symbol, t, rnd, clock) ==
  Row(symbol \o "-binance-" \o Key(binanceKey(t), rnd), "binance", symbol, t.p, t.q,
      IF t.m = "true" THEN "sell" ELSE "buy", Or(t.T, clock))

okxTrade(symbol, t, rnd, clock) ==
  Row(symbol \o "-okx-" \o Key(okxKey(t), rnd), "okx", symbol, t.p, Or(t.sz, Or(t.qty, 0)),
      IF t.side = "sell" \/ t.side = "S" THEN "sell" ELSE "buy", Or(t.ts, clock))

bybitTrade(symbol, t, rnd, clock) ==
  Row(symbol \o "-bybit-" \o Key(bybitKey(t), rnd), "bybit", symbol, t.price,
      Or(t.qty, Or(t.size, 0)),
      IF t.side = "Sell" THEN "sell" ELSE "buy", Or(t.trade_time_ms, clock))

\* Whether the id's || chain reaches Math.random().
NeedsRandom(exchange, t) ==
  CASE exchange = "binance" -> binanceKey(t) = 0
    [] exchange = "okx" -> okxKey(t) = 0
    [] OTHER -> bybitKey(t) = 0

Normalize(exchange, symbol, t, rnd, clock) ==
  CASE exchange = "binance" -> binanceTrade(symbol, t, rnd, clock)
    [] exchange = "okx" -> okxTrade(symbol, t, rnd, clock)
    [] OTHER -> bybitTrade(symbol, t, rnd, clock)

\* Mutant: an insert that throws is caught inside the loop, which goes on
\* with the next element; the error is reported at the end.
RECURSIVE InsertLoop_goOn(_, _, _, _, _, _, _)
InsertLoop_goOn(st, ids, exchange, symbol, items, n, clock) ==
  IF items = <<>> THEN [store |-> st, ids |-> ids, error |-> "none", randoms |-> n]
  ELSE LET t == Head(items)
           drawn == IF NeedsRandom(exchange, t) THEN n + 1 ELSE n
           trade == Normalize(exchange, symbol, t, Random(drawn), clock)
           r == insertTrade(st, trade)
       IN IF r.error # "none"
          THEN [InsertLoop_goOn(r.store, ids, exchange, symbol, Tail(items), drawn, clock)
                  EXCEPT !.error = r.error]
          ELSE InsertLoop_goOn(r.store, ids \cup {trade.id}, exchange, symbol,
                               Tail(items), drawn, clock)

\* for(const t of items){ ...; insertTrade(trade); } from element i on.  The
\* loop ends at the first insert that throws; rows inserted before it stay.
\* ids: the ids of the inserts that returned.
\* n: the Math.random() values drawn so far.
RECURSIVE InsertLoop(_, _, _, _, _, _, _)
InsertLoop(st, ids, exchange, symbol, items, n, clock) ==
  IF items = <<>> THEN [store |-> st, ids |-> ids, error |-> "none", randoms |-> n]
  ELSE LET t == Head(items)
           drawn == IF NeedsRandom(exchange, t) THEN n + 1 ELSE n
           trade == Normalize(exchange, symbol, t, Random(drawn), clock)
           r == insertTrade(st, trade)
       IN IF r.error # "none"
          THEN [store |-> r.store, ids |-> ids, error |-> r.error, randoms |-> drawn]
          ELSE InsertLoop(r.store, ids \cup {trade.id}, exchange, symbol,
                          Tail(items), drawn, clock)

-----------------------------------------------------------------------------
(* POST /api/backfill *)

NoQuery == [symbol |-> "", exchange |-> "", periodMs |-> 0, bucket |-> 0, limit |-> 0,
            now |-> 0]

NoReq == [symbol |-> "", exchange |-> "", start |-> 0, end |-> 0]

Init ==
  /\ now = Now0
  /\ store = {}
  /\ pc = [c \in Calls |-> "idle"]
  /\ req = [c \in Calls |-> NoReq]
  /\ win = [c \in Calls |-> 0]
  /\ attempt = [c \in Calls |-> 0]
  /\ response = [c \in Calls |-> <<>>]
  /\ inflight = {}
  /\ failure = [c \in Calls |-> "none"]
  /\ received = [c \in Calls |-> <<>>]
  /\ added = [c \in Calls |-> {}]
  /\ ingested = {}
  /\ doneBefore = [c \in Calls |-> {}]
  /\ requested = [c \in Calls |-> {}]
  /\ randoms = 0
  /\ query = NoQuery
  /\ clusters = <<>>

Min(a, b) == IF a < b THEN a ELSE b

\* Mutant: the okx and bybit requests carry the requested range.
Request_ranged(c, r, s) ==
  [call |-> c, exchange |-> r.exchange,
   startTime |-> IF r.exchange = "binance" THEN s ELSE r.start,
   endTime |-> IF r.exchange = "binance" THEN Min(r.end, s + windowMs - 1) ELSE r.end]

\* The axios.get a connector issues.  Binance carries the window
\* startTime..endTime (e = Math.min(end, s + windowMs - 1)); the recent-trades
\* endpoints of okx and bybit carry no time at all.
Request(c, r, s) ==
  [call |-> c, exchange |-> r.exchange,
   startTime |-> IF r.exchange = "binance" THEN s ELSE 0,
   endTime |-> IF r.exchange = "binance" THEN Min(r.end, s + windowMs - 1) ELSE 0]

\* Mutant: one retry more.
Retries_more(exchange) ==
  IF exchange = "binance" THEN binanceRetries + 1 ELSE recentRetries + 1

\* {retries: 3} for binance, {retries: 2} for okx and bybit: the retries pRetry
\* makes after the first attempt.
Retries(exchange) == IF exchange = "binance" THEN binanceRetries ELSE recentRetries

\* Mutant: the next window is requested along with this one.
Issue_ahead(c, r, s) == inflight \cup {Request(c, r, s), Request(c, r, s + windowMs)}

\* await pRetry(() => fetch...(...)): the connector is invoked and the handler
\* suspends until axios settles.
Issue(c, r, s) == inflight \cup {Request(c, r, s)}

\* The time parameters of the request, as the history keeps them.
Asked(c, r, s) ==
  requested' = [requested EXCEPT ![c] = @ \cup {[startTime |-> Request(c, r, s).startTime,
                                                  endTime |-> Request(c, r, s).endTime]}]

\* Mutant: && for ||.
Missing_both(symbol, exchange) == symbol = "" /\ exchange = ""

\* !symbol || !exchange
Missing(symbol, exchange) == symbol = "" \/ exchange = ""

\* Mutant: the catch logs the error and sends nothing.
Respond_silent(c, status) ==
  /\ response' = [response EXCEPT ![c] = IF status = 500 THEN @ ELSE Append(@, status)]
  /\ pc' = [pc EXCEPT ![c] = "done"]

\* res.json(...) and the end of the handler.
Respond(c, status) ==
  /\ response' = [response EXCEPT ![c] = Append(@, status)]
  /\ pc' = [pc EXCEPT ![c] = "done"]

\* The handler up to its first await.
Backfill(c, symbol, exchange, startTs, endTs) ==
  LET start == Or(startTs, now - dayMs)
      end == Or(endTs, now)
      r == [symbol |-> symbol, exchange |-> exchange, start |-> start, end |-> end]
  IN
  /\ pc[c] = "idle"
  /\ \A d \in Calls : d < c => pc[d] # "idle"
  /\ doneBefore' = [doneBefore EXCEPT ![c] = {d \in Calls : pc[d] = "done"}]
  /\ IF Missing(symbol, exchange)
     THEN /\ req' = [req EXCEPT ![c] = [NoReq EXCEPT !.symbol = symbol,
                                                     !.exchange = exchange]]
          /\ Respond(c, 400)
          /\ UNCHANGED <<win, attempt, inflight, requested>>
     ELSE /\ req' = [req EXCEPT ![c] = r]
          /\ win' = [win EXCEPT ![c] = IF exchange = "binance" THEN start ELSE 0]
          /\ IF (exchange = "binance" /\ start < end) \/ exchange \in {"okx", "bybit"}
             THEN /\ attempt' = [attempt EXCEPT ![c] = 1]
                  /\ inflight' = Issue(c, r, start)
                  /\ Asked(c, r, start)
                  /\ pc' = [pc EXCEPT ![c] = "fetch"]
                  /\ UNCHANGED response
             ELSE /\ Respond(c, 200)
                  /\ UNCHANGED <<attempt, inflight, requested>>
  /\ UNCHANGED <<now, store, failure, received, added, ingested, randoms, query,
                 clusters>>

\* Mutant: no polite delay, the next window is requested right after the
\* inserts.
FetchOk_noDelay(c, body) ==
  LET r == req[c]
      done == IF body.usable
              THEN InsertLoop(store, {}, r.exchange, r.symbol, body.items, randoms, now)
              ELSE [store |-> store, ids |-> {}, error |-> "none", randoms |-> randoms]
      s == win[c] + windowMs
      more == done.error = "none" /\ r.exchange = "binance" /\ s < r.end
  IN
  /\ pc[c] = "fetch"
  /\ done.randoms <= MaxRandoms
  /\ randoms' = done.randoms
  /\ store' = done.store
  /\ received' = [received EXCEPT ![c] = Append(@, body)]
  /\ added' = [added EXCEPT ![c] = @ \cup (done.store \ store)]
  /\ ingested' = ingested \cup done.ids
  /\ failure' = [failure EXCEPT ![c] = done.error]
  /\ IF more
     THEN /\ win' = [win EXCEPT ![c] = s]
          /\ attempt' = [attempt EXCEPT ![c] = 1]
          /\ inflight' = (inflight \ {Request(c, r, win[c])}) \cup {Request(c, r, s)}
          /\ Asked(c, r, s)
          /\ UNCHANGED <<pc, response>>
     ELSE /\ inflight' = inflight \ {Request(c, r, win[c])}
          /\ Respond(c, IF done.error = "none" THEN 200 ELSE 500)
          /\ UNCHANGED <<win, attempt, requested>>
  /\ UNCHANGED <<now, req, doneBefore, query, clusters>>

\* axios.get resolves with `body`: the handler inserts its trades, then
\* either sleeps the polite delay (binance) or responds.
FetchOk(c, body) ==
  LET r == req[c]
      done == IF body.usable
              THEN InsertLoop(store, {}, r.exchange, r.symbol, body.items, randoms, now)
              ELSE [store |-> store, ids |-> {}, error |-> "none", randoms |-> randoms]
  IN
  /\ pc[c] = "fetch"
  /\ done.randoms <= MaxRandoms
  /\ randoms' = done.randoms
  /\ inflight' = inflight \ {Request(c, r, win[c])}
  /\ store' = done.store
  /\ received' = [received EXCEPT ![c] = Append(@, body)]
  /\ added' = [added EXCEPT ![c] = @ \cup (done.store \ store)]
  /\ ingested' = ingested \cup done.ids
  /\ IF done.error # "none"
     THEN /\ failure' = [failure EXCEPT ![c] = done.error]
          /\ Respond(c, 500)
     ELSE /\ UNCHANGED failure
          /\ IF r.exchange = "binance"
             THEN /\ pc' = [pc EXCEPT ![c] = "delay"]
                  /\ UNCHANGED response
             ELSE Respond(c, 200)
  /\ UNCHANGED <<now, req, win, attempt, doneBefore, requested, query, clusters>>

\* The connector answers with one of the bodies of its exchange.
Fetched(c) == \E body \in Bodies(req[c].exchange) : FetchOk(c, body)

\* axios.get rejects (transport error, non-2xx status, 20 s timeout): pRetry
\* schedules another attempt while retries are left, else rejects, and the
\* handler's catch answers 500.
FetchFail(c) ==
  /\ pc[c] = "fetch"
  /\ inflight' = inflight \ {Request(c, req[c], win[c])}
  /\ IF attempt[c] <= Retries(req[c].exchange)
     THEN /\ pc' = [pc EXCEPT ![c] = "backoff"]
          /\ UNCHANGED <<response, failure>>
     ELSE /\ failure' = [failure EXCEPT ![c] = "FetchFailed"]
          /\ Respond(c, 500)
  /\ UNCHANGED <<now, store, req, win, attempt, received, added, ingested, doneBefore,
                 requested, randoms, query, clusters>>

\* pRetry's backoff timer fires: the connector is invoked again.
Retry(c) ==
  /\ pc[c] = "backoff"
  /\ attempt' = [attempt EXCEPT ![c] = @ + 1]
  /\ inflight' = Issue(c, req[c], win[c])
  /\ Asked(c, req[c], win[c])
  /\ pc' = [pc EXCEPT ![c] = "fetch"]
  /\ UNCHANGED <<now, store, req, win, response, failure, received, added, ingested,
                 doneBefore, randoms, query, clusters>>

\* setTimeout(r, 300) fires: s += windowMs, then the loop test.
DelayElapsed(c) ==
  LET s == win[c] + windowMs IN
  /\ pc[c] = "delay"
  /\ win' = [win EXCEPT ![c] = s]
  /\ IF s < req[c].end
     THEN /\ attempt' = [attempt EXCEPT ![c] = 1]
          /\ inflight' = Issue(c, req[c], s)
          /\ Asked(c, req[c], s)
          /\ pc' = [pc EXCEPT ![c] = "fetch"]
          /\ UNCHANGED response
     ELSE /\ Respond(c, 200)
          /\ UNCHANGED <<attempt, inflight, requested>>
  /\ UNCHANGED <<now, store, req, failure, received, added, ingested, doneBefore,
                 randoms, query, clusters>>

\* Time passes.
Tick ==
  /\ now < Now0 + MaxTicks * TickMs
  /\ now' = now + TickMs
  /\ UNCHANGED <<store, pc, req, win, attempt, response, inflight, failure,
                 received, added, ingested, doneBefore, requested, randoms, query,
                 clusters>>

Next ==
  \/ \E c \in Calls, b \in RequestInputs :
        Backfill(c, b.symbol, b.exchange, b.startTs, b.endTs)
  \/ \E c \in Calls : Fetched(c)
  \/ \E c \in Calls : FetchFail(c)
  \/ \E c \in Calls : Retry(c)
  \/ \E c \in Calls : DelayElapsed(c)
  \/ Tick

Spec == Init /\ [][Next]_vars

-----------------------------------------------------------------------------
(* GET /api/top-clusters *)

Max(a, b) == IF a > b THEN a ELSE b

\* Mutant: the exchange is not part of the WHERE clause.
Select_anyExchange(st, symbol, exchange, since) ==
  {r \in st : r.symbol = symbol /\ r.ts >= since}

\* SELECT price, qty, ts FROM trades WHERE symbol = ? AND exchange = ? AND ts >= ?
Select(st, symbol, exchange, since) ==
  {r \in st : r.symbol = symbol /\ r.exchange = exchange /\ r.ts >= since}

\* The SELECT has no ORDER BY: the rows come in any order.
Orders(rows) ==
  {f \in [1..Cardinality(rows) -> rows] : \A i, j \in 1..Cardinality(rows) : f[i] = f[j] => i = j}

\* Math.round(price / bucketSize) * bucketSize; Math.round rounds a half up.
bucketPrice(price, bucketSize) == ((2 * price + bucketSize) \div (2 * bucketSize)) * bucketSize

\* pb.toFixed(8): the decimal string of pb rounded to 8 fractional digits (a
\* half goes up), given by its value in units of 1e-8.
toFixed8(pb) == (pb + 5) \div 10

\* One turn of the loop over the rows.  The Map keeps its keys in the order
\* of their first insertion, and a bucket keeps the price it was created
\* with.
Accumulate(buckets, r, bucketSize) ==
  LET pb == bucketPrice(r.price, bucketSize)
      key == toFixed8(pb)
  IN
  IF \E i \in 1..Len(buckets) : buckets[i].key = key
  THEN [i \in 1..Len(buckets) |->
          IF buckets[i].key = key
          THEN [buckets[i] EXCEPT !.v.volume = @ + r.qty, !.v.lastTs = Max(@, r.ts)]
          ELSE buckets[i]]
  ELSE Append(buckets, [key |-> key,
                        v |-> [price |-> pb, volume |-> 0 + r.qty, lastTs |-> Max(0, r.ts)]])

\* Array.from(buckets.values())
Values(buckets) == [i \in 1..Len(buckets) |-> buckets[i].v]

RECURSIVE Buckets(_, _, _)
Buckets(buckets, rows, bucketSize) ==
  IF rows = <<>> THEN buckets
  ELSE Buckets(Accumulate(buckets, Head(rows), bucketSize), Tail(rows), bucketSize)

\* Mutant: a.volume - b.volume, ascending.
RECURSIVE SortByVolume_ascending(_)
SortByVolume_ascending(arr) ==
  IF arr = <<>> THEN <<>>
  ELSE LET low == CHOOSE i \in 1..Len(arr) :
                    /\ \A j \in 1..Len(arr) : arr[j].volume >= arr[i].volume
                    /\ \A j \in 1..(i - 1) : arr[j].volume > arr[i].volume
           rest == [j \in 1..(Len(arr) - 1) |-> IF j < low THEN arr[j] ELSE arr[j + 1]]
       IN <<arr[low]>> \o SortByVolume_ascending(rest)

\* Array.prototype.sort((a, b) => b.volume - a.volume): stable, by volume
\* descending.
RECURSIVE SortByVolume(_)
SortByVolume(arr) ==
  IF arr = <<>> THEN <<>>
  ELSE LET top == CHOOSE i \in 1..Len(arr) :
                    /\ \A j \in 1..Len(arr) : arr[j].volume <= arr[i].volume
                    /\ \A j \in 1..(i - 1) : arr[j].volume < arr[i].volume
           rest == [j \in 1..(Len(arr) - 1) |-> IF j < top THEN arr[j] ELSE arr[j + 1]]
       IN <<arr[top]>> \o SortByVolume(rest)

\* arr.slice(0, limit), limit > 0
Slice(arr, limit) == SubSeq(arr, 1, Min(limit, Len(arr)))

\* computeClusters after the SELECT: rows in the order the statement gave.
computeClusters(rows, bucketSize, limit) ==
  IF rows = <<>> THEN <<>>
  ELSE Slice(SortByVolume(Values(Buckets(<<>>, rows, bucketSize))), limit)

\* Query strings.  "" and 0 stand for a missing parameter.
QueryInputs ==
  [symbol : {"", "ETHUSDT"}, exchange : {"", "okx"}, limit : {0, 1, 2},
   periodMs : {0, windowMs, 2 * dayMs}, bucket : {0, 2, 12, 20}]

\* The handler of GET /api/top-clusters, with its defaults.
TopClusters(q) ==
  LET symbol == IF q.symbol # "" THEN q.symbol ELSE "BTCUSDT"
      exchange == IF q.exchange # "" THEN q.exchange ELSE "binance"
      limit == Or(q.limit, 50)
      periodMs == Or(q.periodMs, 24 * 3600 * 1000)
      bucket == Or(q.bucket, 1000 * 1000 * 1000)
      since == now - periodMs
  IN
  /\ \E rows \in Orders(Select(store, symbol, exchange, since)) :
        clusters' = computeClusters(rows, bucket, limit)
  /\ query' = [symbol |-> symbol, exchange |-> exchange, periodMs |-> periodMs,
               bucket |-> bucket, limit |-> limit, now |-> now]
  /\ UNCHANGED <<now, store, pc, req, win, attempt, response, inflight, failure,
                 received, added, ingested, doneBefore, requested, randoms>>

\* The table as earlier runs of the server left it in data.sqlite: the rows
\* of bodies ingested for BTCUSDT and ETHUSDT.
Ingest(acc, exchange, symbol, body) ==
  IF body.usable
  THEN InsertLoop(acc.store, {}, exchange, symbol, body.items, acc.randoms, Now0)
  ELSE acc

Stored ==
  {Ingest(Ingest(Ingest(Ingest([store |-> {}, randoms |-> 0],
       "binance", "BTCUSDT", b1), "binance", "BTCUSDT", b2), "binance", "ETHUSDT", b3),
       "okx", "BTCUSDT", b4).store :
     b1 \in BinanceBodies, b2 \in BinanceBodies,
     b3 \in {Body(FALSE, <<>>), Body(TRUE, <<B2, B4>>)}, b4 \in OkxBodies}

QueryInit ==
  /\ now = Now0
  /\ store \in Stored
  /\ pc = [c \in Calls |-> "idle"]
  /\ req = [c \in Calls |-> NoReq]
  /\ win = [c \in Calls |-> 0]
  /\ attempt = [c \in Calls |-> 0]
  /\ response = [c \in Calls |-> <<>>]
  /\ inflight = {}
  /\ failure = [c \in Calls |-> "none"]
  /\ received = [c \in Calls |-> <<>>]
  /\ added = [c \in Calls |-> {}]
  /\ ingested = {}
  /\ doneBefore = [c \in Calls |-> {}]
  /\ requested = [c \in Calls |-> {}]
  /\ randoms = 0
  /\ query = NoQuery
  /\ clusters = <<>>

QueryNext ==
  \/ \E q \in QueryInputs : TopClusters(q)
  \/ Tick

QuerySpec == QueryInit /\ [][QueryNext]_vars

-----------------------------------------------------------------------------
(* Backfills whose fetches settle and whose timers fire *)

LiveInputs ==
  { ReqBody("BTCUSDT", "binance", TwoWindows[1], TwoWindows[2]),
    ReqBody("BTCUSDT", "binance", EmptyRange[1], EmptyRange[2]),
    ReqBody("BTCUSDT", "bybit", FromYesterday[1], FromYesterday[2]),
    ReqBody("BTCUSDT", "kraken", TwoWindows[1], TwoWindows[2]) }

LiveNext ==
  \/ \E c \in Calls, b \in LiveInputs :
        Backfill(c, b.symbol, b.exchange, b.startTs, b.endTs)
  \/ \E c \in Calls : Fetched(c)
  \/ \E c \in Calls : FetchFail(c)
  \/ \E c \in Calls : Retry(c)
  \/ \E c \in Calls : DelayElapsed(c)
  \/ Tick

\* axios settles every request (a response, an error, or the 20 s timeout);
\* the timers of pRetry and of the polite delay fire.
Settles == \A c \in Calls : WF_vars(Fetched(c) \/ FetchFail(c))
TimersFire == \A c \in Calls : WF_vars(Retry(c)) /\ WF_vars(DelayElapsed(c))

LiveSpec == Init /\ [][LiveNext]_vars /\ Settles /\ TimersFire

-----------------------------------------------------------------------------
(* The server as a whole: backfills and queries interleaved *)

ServerInputs ==
  { ReqBody("BTCUSDT", "binance", UntilNow[1], UntilNow[2]),
    ReqBody("BTCUSDT", "okx", TwoWindows[1], TwoWindows[2]) }

ServerQueries ==
  { [symbol |-> "", exchange |-> "", limit |-> 0, periodMs |-> 0, bucket |-> 12] }

ServerNext ==
  \/ \E c \in Calls, b \in ServerInputs :
        Backfill(c, b.symbol, b.exchange, b.startTs, b.endTs)
  \/ \E c \in Calls : Fetched(c)
  \/ \E c \in Calls : FetchFail(c)
  \/ \E c \in Calls : Retry(c)
  \/ \E c \in Calls : DelayElapsed(c)
  \/ \E q \in ServerQueries : TopClusters(q)
  \/ Tick

ServerSpec == Init /\ [][ServerNext]_vars

-----------------------------------------------------------------------------
(* Vocabulary of the properties *)

SeqRange(q) == {q[i] : i \in 1..Len(q)}

Ids(st) == {r.id : r \in st}

UniqueIds(st) == \A r1, r2 \in st : r1.id = r2.id => r1 = r2

\* The payloads call c has received in bodies the handler iterates.
Items(c) == UNION {SeqRange(b.items) : b \in {x \in SeqRange(received[c]) : x.usable}}

\* The payload carries an identifier of the exchange's own.
Identified(exchange, t) ==
  CASE exchange = "binance" -> t.a # 0 \/ t.aggregateId # 0 \/ t.tradeId # 0
    [] exchange = "okx" -> t.ts # 0 \/ t.tradeId # 0
    [] OTHER -> t.trade_time_ms # 0

\* The ids of the identified payloads call c has received.
IdsOf(c) ==
  {Normalize(req[c].exchange, req[c].symbol, t, "", 0).id :
     t \in {x \in Items(c) : Identified(req[c].exchange, x)}}

Known(exchange) == exchange \in {"binance", "okx", "bybit"}

Ended(c, status) == pc[c] = "done" /\ response[c] = <<status>>

\* Call c has just been resumed by a body (a FetchOk step of c).
Resumed(c) == received'[c] # received[c]

-----------------------------------------------------------------------------
(* C1: insert is idempotent.  Whenever a handler inserts the trades of a   *)
(* body, every row already in the table is still there with all its fields *)
(* (an insert under a present id changes nothing), every row that is new    *)
(* is one of the body's trades under an id that was absent, ids stay        *)
(* unique, no insert raises over a taken id, and, unless the binding        *)
(* raised, every trade's id is present afterwards.                          *)

C1_Step(c) ==
  LET body == received'[c][Len(received'[c])]
      x == req[c].exchange
      trades == IF body.usable
                THEN {Normalize(x, req[c].symbol, body.items[i], Random(k), now) :
                        i \in 1..Len(body.items), k \in 0..MaxRandoms}
                ELSE {}
  IN /\ store \subseteq store'
     /\ \A n \in store' \ store : n.id \notin Ids(store) /\ n \in trades
     /\ UniqueIds(store')
     /\ failure'[c] # "SQLITE_CONSTRAINT"
     /\ failure'[c] = "none" => \A t \in trades : Bindable(t)
     /\ failure'[c] = "none" /\ body.usable =>
          \A i \in 1..Len(body.items) : \E k \in 0..MaxRandoms :
             Normalize(x, req[c].symbol, body.items[i], Random(k), now).id \in Ids(store')

C1_InsertIdempotent == [][\A c \in Calls : Resumed(c) => C1_Step(c)]_vars

\* The row of B1 has survived a later insert of B2 (same id, other fields),
\* whose batch added the row of B4.
C1_Witness ==
  /\ \E r \in store : r.id = "BTCUSDT-binance-1" /\ r.price = B1.p /\ r.ts = B1.T
  /\ \E r \in store : r.id = "BTCUSDT-binance-2"
  /\ \E c \in Calls : /\ req[c].symbol = "BTCUSDT" /\ req[c].exchange = "binance"
                      /\ B2 \in Items(c) /\ failure[c] = "none"

-----------------------------------------------------------------------------
(* C2: re-running a backfill is safe.  When a backfill is run again after   *)
(* it ended, with the same symbol, exchange and range, and receives the     *)
(* same bodies, the second run adds no row.                                 *)

Rerun(c1, c2) ==
  /\ c1 \in doneBefore[c2]
  /\ pc[c2] = "done"
  /\ req[c1] = req[c2]
  /\ Known(req[c2].exchange)
  /\ received[c1] = received[c2]

\* The claim as stated: for every payload.
C2_Original == \A c1, c2 \in Calls : Rerun(c1, c2) => added[c2] = {}

\* As amended: for payloads that carry an identifier of their own.
C2_RerunIdentified ==
  \A c1, c2 \in Calls :
    Rerun(c1, c2) /\ (\A t \in Items(c2) : Identified(req[c2].exchange, t))
      => added[c2] = {}

C2_Witness ==
  \E c1, c2 \in Calls :
    /\ Rerun(c1, c2) /\ req[c2].exchange = "binance"
    /\ Ended(c1, 200) /\ Ended(c2, 200)
    /\ Len(received[c2]) = 2
    /\ B1 \in Items(c2) /\ B2 \in Items(c2)
    /\ \A t \in Items(c2) : Identified("binance", t)
    /\ added[c1] # {}

-----------------------------------------------------------------------------
(* C3: partial backfill resilience.  A range backfill whose store did not   *)
(* fail ends only when its loop has come to the last window of the range:   *)
(* a window that exhausts its retries does not keep the windows after it    *)
(* from being fetched and stored.                                           *)

C3_LaterWindowsFetched ==
  \A c \in Calls :
    pc[c] = "done" /\ req[c].exchange = "binance" /\ req[c].symbol # ""
      /\ failure[c] # "TypeError"
    => win[c] + windowMs >= req[c].end

-----------------------------------------------------------------------------
(* C4: a range backfill in which no insert raised ends with {ok: true},     *)
(* also when a window that is not its last has exhausted its retries.       *)

C4_WindowFailureSwallowed ==
  \A c \in Calls :
    pc[c] = "done" /\ req[c].exchange = "binance" /\ req[c].symbol # ""
      /\ failure[c] # "TypeError"
      /\ (failure[c] = "FetchFailed" => win[c] + windowMs < req[c].end)
    => response[c] = <<200>>

-----------------------------------------------------------------------------
(* C5: concurrent overlapping backfills are safe without locking.  In every *)
(* interleaving no handler is ended by a uniqueness violation, the table    *)
(* holds one row per id, and the ids stored are exactly the ids whose       *)
(* insert returned.                                                         *)

C5_ConcurrentSafe ==
  /\ \A c \in Calls : failure[c] # "SQLITE_CONSTRAINT"
  /\ UniqueIds(store)
  /\ Ids(store) = ingested

\* Two calls that overlapped in time have both ended well after receiving
\* payloads of one id.
C5_Witness ==
  \E c1, c2 \in Calls :
    /\ c1 < c2 /\ c1 \notin doneBefore[c2]
    /\ Ended(c1, 200) /\ Ended(c2, 200)
    /\ IdsOf(c1) \cap IdsOf(c2) # {}
    /\ IdsOf(c1) \ IdsOf(c2) # {}
    /\ IdsOf(c1) \cup IdsOf(c2) \subseteq Ids(store)

-----------------------------------------------------------------------------
(* C6: retry budget.  As stated: at most 3 invocations of the connector     *)
(* for a window of binance, at most 2 for okx and bybit.                    *)

ClaimedBudget(exchange) == IF exchange = "binance" THEN 3 ELSE 2

C6_Original == \A c \in Calls : attempt[c] <= ClaimedBudget(req[c].exchange)

(* As amended: pRetry's `retries` counts the retries after the first        *)
(* attempt, so the budget is 4 invocations for a window of binance and 3    *)
(* for okx and bybit; a fetch failure is surfaced only by the last of       *)
(* them, and every window is received at most once (a success ends its      *)
(* retries).                                                                *)

ActualBudget(exchange) == IF exchange = "binance" THEN 4 ELSE 3

WindowsBefore(c) ==
  IF req[c].exchange = "binance" THEN (win[c] - req[c].start) \div windowMs ELSE 0

C6_RetryBudget ==
  \A c \in Calls :
    /\ attempt[c] <= ActualBudget(req[c].exchange)
    /\ failure[c] = "FetchFailed" => attempt[c] = ActualBudget(req[c].exchange)
    /\ pc[c] \in {"fetch", "backoff"} => Len(received[c]) = WindowsBefore(c)
    /\ pc[c] = "delay" => Len(received[c]) = WindowsBefore(c) + 1

C6_Witness ==
  /\ \E c \in Calls : /\ req[c].exchange = "binance" /\ failure[c] = "FetchFailed"
                      /\ attempt[c] = 4 /\ Len(received[c]) = 1
  /\ \E c \in Calls : /\ req[c].exchange = "okx" /\ attempt[c] = 3 /\ Ended(c, 200)
                      /\ added[c] # {}

-----------------------------------------------------------------------------
(* C7: within one backfill call at most one connector request is in flight  *)
(* at any moment, and the windows are requested in increasing order of      *)
(* their start: a request never starts before the window the loop is at,    *)
(* and the request after the polite delay starts later.                     *)

OneInFlight == \A c \in Calls : Cardinality({q \in inflight : q.call = c}) <= 1

WindowsIncrease ==
  \A q \in inflight' \ inflight :
    /\ pc[q.call] # "idle" => q.startTime >= win[q.call]
    /\ pc[q.call] = "delay" => q.startTime > win[q.call]
    /\ \A o \in inflight : o.call # q.call

C7_Sequential == []OneInFlight /\ [][WindowsIncrease]_vars

\* The second window of a two-window range is in flight.
C7_Witness ==
  \E q \in inflight :
    /\ q.exchange = "binance"
    /\ q.startTime = req[q.call].start + windowMs
    /\ q.endTime = req[q.call].end

-----------------------------------------------------------------------------
(* C8: a backfill whose exchange is none of binance, okx, bybit ends with   *)
(* an error response, and makes no connector call and no insert.            *)

C8_UnknownExchange ==
  \A c \in Calls :
    pc[c] = "done" /\ ~Missing(req[c].symbol, req[c].exchange) /\ ~Known(req[c].exchange)
    => /\ Len(response[c]) = 1 /\ response[c][1] \in {400, 500}
       /\ attempt[c] = 0 /\ received[c] = <<>> /\ added[c] = {}

-----------------------------------------------------------------------------
(* C9: a request without symbol or without exchange is answered 400 at      *)
(* once: the handler has ended, no connector was called, nothing is in      *)
(* flight and no row was added.                                             *)

C9_MissingField ==
  \A c \in Calls :
    pc[c] # "idle" /\ (req[c].symbol = "" \/ req[c].exchange = "")
    => /\ Ended(c, 400)
       /\ attempt[c] = 0 /\ received[c] = <<>> /\ added[c] = {}
       /\ \A q \in inflight : q.call # c

C9_Witness ==
  /\ \E c \in Calls : Ended(c, 400) /\ req[c].symbol = "" /\ req[c].exchange = "binance"
  /\ \E c \in Calls : Ended(c, 400) /\ req[c].symbol = "BTCUSDT" /\ req[c].exchange = ""

-----------------------------------------------------------------------------
(* C10: time-window and source filter of topClusters.  Every returned       *)
(* bucket is made of the rows of the queried symbol and exchange whose      *)
(* timestamp is at least now - periodMs, and of nothing else: its volume is *)
(* the sum of their quantities and its lastTs the latest of their           *)
(* timestamps, over those of them that fall to its price.  Unless the       *)
(* limit cut the answer, every such row has its bucket in the answer.       *)

RECURSIVE SumQty(_)
SumQty(rows) ==
  IF rows = {} THEN 0
  ELSE LET r == CHOOSE x \in rows : TRUE IN r.qty + SumQty(rows \ {r})

Latest(rows) == CHOOSE t \in {r.ts : r \in rows} : \A r \in rows : r.ts <= t

\* The rows the claim lets through.
InWindow(q) ==
  {r \in store : r.symbol = q.symbol /\ r.exchange = q.exchange
                   /\ ~(r.ts < q.now - q.periodMs)}

C10_QueryFilter ==
  query # NoQuery =>
    LET rows == InWindow(query)
        part(b) == {r \in rows : toFixed8(bucketPrice(r.price, query.bucket))
                                    = toFixed8(b.price)}
    IN /\ \A i \in 1..Len(clusters) :
            /\ part(clusters[i]) # {}
            /\ clusters[i].volume = SumQty(part(clusters[i]))
            /\ clusters[i].lastTs = Latest(part(clusters[i]))
       /\ Len(clusters) < query.limit =>
            \A r \in rows : \E i \in 1..Len(clusters) :
               toFixed8(clusters[i].price) = toFixed8(bucketPrice(r.price, query.bucket))

\* A query answered from a table that also holds a row of the same symbol
\* and exchange that is too old, a row on the edge of the window, a row of
\* another symbol and a row of another exchange.
C10_Witness ==
  /\ query # NoQuery /\ clusters # <<>>
  /\ query.symbol = "BTCUSDT" /\ query.exchange = "binance"
  /\ \E r \in store : /\ r.symbol = query.symbol /\ r.exchange = query.exchange
                      /\ r.ts < query.now - query.periodMs
  /\ \E r \in store : /\ r.symbol = query.symbol /\ r.exchange = query.exchange
                      /\ r.ts = query.now - query.periodMs
  /\ \E r \in store : r.symbol # query.symbol /\ r.exchange = query.exchange
  /\ \E r \in store : r.symbol = query.symbol /\ r.exchange # query.exchange

-----------------------------------------------------------------------------
(* C11: bucketing correctness.  Over the rows the query selected, every     *)
(* returned bucket has the price round(price / bucketSize) * bucketSize of  *)
(* the rows that went into it, its volume is the sum of their quantities    *)
(* and its lastTs their latest timestamp; returned buckets have pairwise    *)
(* distinct prices; and, unless the limit cut the answer, every selected    *)
(* row has its bucket in the answer and the volumes add up to the total     *)
(* quantity selected.                                                       *)

Selected(q) == Select(store, q.symbol, q.exchange, q.now - q.periodMs)

RECURSIVE SumVolume(_)
SumVolume(arr) == IF arr = <<>> THEN 0 ELSE Head(arr).volume + SumVolume(Tail(arr))

C11_Bucketing ==
  query # NoQuery =>
    LET rows == Selected(query)
        at(r) == bucketPrice(r.price, query.bucket)
        of(b) == {r \in rows : at(r) = b.price}
    IN /\ \A i, j \in 1..Len(clusters) : clusters[i].price = clusters[j].price => i = j
       /\ \A i \in 1..Len(clusters) :
            /\ of(clusters[i]) # {}
            /\ clusters[i].volume = SumQty(of(clusters[i]))
            /\ clusters[i].lastTs = Latest(of(clusters[i]))
       /\ Len(clusters) < query.limit =>
            /\ \A r \in rows : \E i \in 1..Len(clusters) : clusters[i].price = at(r)
            /\ SumVolume(clusters) = SumQty(rows)

-----------------------------------------------------------------------------
(* C12: ranking.  The answer is ordered by volume descending, its length is *)
(* the smaller of the limit and the number of buckets the selected rows     *)
(* fall into, no bucket left out has a greater volume than a returned one,  *)
(* and a query that selects no row is answered by the empty sequence.       *)

\* The buckets the selected rows fall into, by the key of the aggregator.
KeysOf(q) == {toFixed8(bucketPrice(r.price, q.bucket)) : r \in Selected(q)}

VolumeOf(q, key) ==
  SumQty({r \in Selected(q) : toFixed8(bucketPrice(r.price, q.bucket)) = key})

Returned == {toFixed8(clusters[i].price) : i \in 1..Len(clusters)}

C12_Ranking ==
  query # NoQuery =>
    /\ \A i, j \in 1..Len(clusters) : i < j => clusters[i].volume >= clusters[j].volume
    /\ Len(clusters) = Min(query.limit, Cardinality(KeysOf(query)))
    /\ Cardinality(Returned) = Len(clusters)
    /\ Returned \subseteq KeysOf(query)
    /\ \A i \in 1..Len(clusters) :
          clusters[i].volume = VolumeOf(query, toFixed8(clusters[i].price))
    /\ \A k \in KeysOf(query) \ Returned : \A i \in 1..Len(clusters) :
          VolumeOf(query, k) <= clusters[i].volume
    /\ Selected(query) = {} => clusters = <<>>

\* Three buckets of volumes 30, 20, 10 asked for with limit 2.
C12_Witness ==
  /\ query # NoQuery /\ query.limit = 2
  /\ Cardinality(KeysOf(query)) = 3
  /\ Len(clusters) = 2
  /\ clusters[1].volume = 30 /\ clusters[2].volume = 20
  /\ \E k \in KeysOf(query) \ Returned : VolumeOf(query, k) = 10

-----------------------------------------------------------------------------
(* C13: the store only grows and stored trades are immutable.  In every     *)
(* step of any interleaving of backfills and queries, each row of the table *)
(* is still there with all its fields, every new row has an id that was     *)
(* absent, ids stay unique, and a step that answers a query leaves the      *)
(* table as it is.                                                          *)

Answered == query' # query \/ clusters' # clusters

C13_Step ==
  /\ store \subseteq store'
  /\ \A n \in store' \ store : n.id \notin Ids(store)
  /\ UniqueIds(store')
  /\ Answered => store' = store

C13_StoreGrows == [][C13_Step]_vars

\* A query was answered between the two windows of a backfill: the call is
\* in its second delay, and the rows selected now outweigh the answer.
C13_Witness ==
  /\ query # NoQuery /\ clusters # <<>> /\ query.limit > Len(clusters)
  /\ SumVolume(clusters) < SumQty(Selected(query))
  /\ \E c \in Calls : /\ pc[c] = "delay" /\ win[c] > req[c].start
                      /\ Len(received[c]) = 2 /\ added[c] # {}
                      /\ B2 \in Items(c) /\ B1 \in Items(c)

-----------------------------------------------------------------------------
(* C14: the trade id is unique per exchange, symbol and exchange trade      *)
(* identifier.  When a call has stored what it received, any two of its     *)
(* payloads that carry different trade identifiers are in the table as two  *)
(* distinct rows, also when they share a timestamp.                         *)

\* The exchange's identifier of the trade a payload reports (0: none).
TradeId(exchange, t) ==
  CASE exchange = "binance" -> Or(t.a, Or(t.aggregateId, t.tradeId))
    [] exchange = "okx" -> t.tradeId
    [] OTHER -> t.id

C14_IdPerTrade ==
  \A c \in Calls :
    Known(req[c].exchange) /\ req[c].symbol # "" /\ failure[c] = "none"
    => LET x == req[c].exchange
           idOf(t) == Normalize(x, req[c].symbol, t, "", 0).id
       IN \A t1, t2 \in {t \in Items(c) : TradeId(x, t) # 0} :
            TradeId(x, t1) # TradeId(x, t2)
            => \E r1, r2 \in store : r1 # r2 /\ r1.id = idOf(t1) /\ r2.id = idOf(t2)

-----------------------------------------------------------------------------
(* C15: side normalization.  Every stored side is buy or sell, and every    *)
(* row a handler adds is the row of one of the payloads it received, with   *)
(* side sell exactly when that payload carries the sell marker of its       *)
(* exchange: m the boolean true for binance, side 'sell' or 'S' for okx,    *)
(* side 'Sell' for bybit.                                                   *)

SellMarker(exchange, t) ==
  CASE exchange = "binance" -> t.m = "true"
    [] exchange = "okx" -> t.side \in {"sell", "S"}
    [] OTHER -> t.side = "Sell"

\* Row n is the row of payload t, whatever its side.
RowOf(n, exchange, symbol, t, clock) ==
  \E k \in 0..MaxRandoms :
     n = [Normalize(exchange, symbol, t, Random(k), clock) EXCEPT !.side = n.side]

C15_Step(c) ==
  LET body == received'[c][Len(received'[c])] IN
  \A n \in store' \ store :
    \E i \in 1..Len(body.items) :
       /\ RowOf(n, req[c].exchange, req[c].symbol, body.items[i], now)
       /\ n.side = "sell" <=> SellMarker(req[c].exchange, body.items[i])

C15_SideNormalized ==
  /\ [](\A r \in store : r.side \in {"buy", "sell"})
  /\ [][\A c \in Calls : Resumed(c) => C15_Step(c)]_vars

\* Stored: a binance sell (m true) and a binance buy whose m is the string
\* "true"; an okx sell marked 'S' and an okx buy marked 'Sell'.
C15_Witness ==
  /\ \E r \in store : r.id = "BTCUSDT-binance-1" /\ r.side = "sell"
  /\ \E r \in store : r.id = "BTCUSDT-binance-2" /\ r.side = "buy"
  /\ \E r \in store : r.id = "BTCUSDT-okx-13" /\ r.side = "sell"
  /\ \E r \in store : r.id = "BTCUSDT-okx-" \o ToString(tB) /\ r.side = "buy"
  /\ \E c \in Calls : req[c].exchange = "binance" /\ B1 \in Items(c) /\ B4 \in Items(c)
  /\ \E c \in Calls : req[c].exchange = "okx" /\ O3 \in Items(c) /\ O4 \in Items(c)

-----------------------------------------------------------------------------
(* C16: window partition of a range backfill.  The windows a call requests  *)
(* start at `start`, are at most one hour wide, lie inside [start, end)     *)
(* (endTime is inclusive at the exchange, so a window ends before `end`),   *)
(* follow one another without gap or overlap, and a call that ends well has *)
(* requested ceil((end - start) / 1h) of them; with start >= end none is    *)
(* requested.                                                               *)

\* ceil((end - start) / windowMs) for start < end
WindowCount(r) == (r.end - r.start + windowMs - 1) \div windowMs

C16_WindowPartition ==
  \A c \in Calls :
    req[c].exchange = "binance" /\ req[c].symbol # ""
    => LET r == req[c] IN
       /\ r.start >= r.end => requested[c] = {}
       /\ \A w \in requested[c] :
            /\ r.start <= w.startTime /\ w.startTime <= w.endTime /\ w.endTime < r.end
            /\ w.endTime - w.startTime + 1 <= windowMs
            /\ w.startTime = r.start
                 \/ \E v \in requested[c] : v.endTime + 1 = w.startTime
            /\ \A v \in requested[c] :
                 v # w => v.endTime < w.startTime \/ w.endTime < v.startTime
       /\ Ended(c, 200) /\ r.start < r.end =>
            /\ Cardinality(requested[c]) = WindowCount(r)
            /\ \E w \in requested[c] : w.endTime = r.end - 1

-----------------------------------------------------------------------------
(* C17: ordering inside a range backfill.  A call inserts only in the step  *)
(* that receives a window's body, with no request of its own in flight      *)
(* afterwards; the polite delay begins with that step, when the window's    *)
(* trades are in the table; and the request of a later window starts only   *)
(* when the delay ends.                                                     *)

Ranged(c) == req[c].exchange = "binance" /\ req[c].symbol # ""

\* The ids of the identified payloads of the body call c received last.
LastIds(c) ==
  LET body == received[c][Len(received[c])] IN
  IF ~body.usable THEN {}
  ELSE {Normalize(req[c].exchange, req[c].symbol, body.items[i], "", 0).id :
          i \in {j \in 1..Len(body.items) : Identified(req[c].exchange, body.items[j])}}

InsertedBeforeDelay ==
  \A c \in Calls : pc[c] = "delay" => received[c] # <<>> /\ LastIds(c) \subseteq Ids(store)

C17_Step(c) ==
  /\ added'[c] # added[c] =>
       /\ Resumed(c) /\ pc[c] = "fetch"
       /\ \A q \in inflight' : q.call # c
  /\ pc'[c] = "delay" /\ pc[c] # "delay" => Resumed(c) /\ Ranged(c)
  /\ \A q \in inflight' \ inflight :
       q.call = c /\ Ranged(c) /\ q.startTime > req[c].start
       => \/ pc[c] = "delay" /\ q.startTime = win[c] + windowMs
          \/ pc[c] = "backoff" /\ q.startTime = win[c]

C17_WindowOrder == []InsertedBeforeDelay /\ [][\A c \in Calls : C17_Step(c)]_vars

\* The second window has been requested; the rows of the first are stored.
C17_Witness ==
  \E c \in Calls :
    /\ Ranged(c) /\ pc[c] = "fetch" /\ attempt[c] = 1
    /\ win[c] = req[c].start + windowMs
    /\ Len(received[c]) = 1 /\ added[c] # {} /\ LastIds(c) \subseteq Ids(store)
    /\ Cardinality(requested[c]) = 2

-----------------------------------------------------------------------------
(* C18: a store failure aborts the backfill.  The step in which an insert   *)
(* raises adds the rows of the payloads before the failing one and nothing  *)
(* after it, answers 500 and leaves no request of the call in flight; from  *)
(* then on the call requests, receives and inserts nothing and answers no   *)
(* more; and the rows a call added stay in the table.                       *)

\* The position of the first payload of the body whose insert raises.
FirstRaising(c, body) ==
  CHOOSE k \in 1..Len(body.items) :
    /\ ~Bindable(Normalize(req[c].exchange, req[c].symbol, body.items[k], "", now))
    /\ \A i \in 1..(k - 1) :
         Bindable(Normalize(req[c].exchange, req[c].symbol, body.items[i], "", now))

C18_Raise(c) ==
  LET body == received'[c][Len(received'[c])]
      k == FirstRaising(c, body)
      before == {Normalize(req[c].exchange, req[c].symbol, body.items[i], "", now).id :
                   i \in 1..(k - 1)}
  IN /\ before \subseteq Ids(store')
     /\ \A n \in store' \ store : n.id \in before
     /\ store \subseteq store'
     /\ pc'[c] = "done" /\ response'[c] = <<500>>
     /\ \A q \in inflight' : q.call # c

C18_After(c) ==
  /\ added'[c] = added[c] /\ received'[c] = received[c]
  /\ requested'[c] = requested[c] /\ attempt'[c] = attempt[c]
  /\ response'[c] = response[c] /\ pc'[c] = pc[c]
  /\ \A q \in inflight' : q.call # c

C18_StoreFailureAborts ==
  /\ [](\A c \in Calls : added[c] \subseteq store)
  /\ [][\A c \in Calls :
          /\ Resumed(c) /\ failure'[c] = "TypeError" => C18_Raise(c)
          /\ failure[c] = "TypeError" => C18_After(c)]_vars

\* The body B4, B5, B1 has raised at B5: the row of B4 was added by the
\* call and is stored, B1 was never inserted, and the other call has gone
\* on since.
C18_Witness ==
  \E c \in Calls :
    /\ failure[c] = "TypeError" /\ Ended(c, 500)
    /\ \E r \in added[c] : r.id = "BTCUSDT-binance-2" /\ r \in store
    /\ "BTCUSDT-binance-1" \notin Ids(store)
    /\ \E d \in Calls : d # c /\ c \in doneBefore[d] /\ pc[d] = "done"

-----------------------------------------------------------------------------
(* C19: every accepted backfill call terminates with exactly one response.  *)
(* Given that every request settles and every timer fires, a call that has  *)
(* begun comes to its end; a call has answered once when it has ended and   *)
(* not at all before; and after its end it requests, receives, inserts and  *)
(* answers nothing.                                                         *)

OneResponse ==
  \A c \in Calls : Len(response[c]) = IF pc[c] = "done" THEN 1 ELSE 0

C19_AfterEnd(c) ==
  /\ pc'[c] = "done" /\ response'[c] = response[c]
  /\ added'[c] = added[c] /\ received'[c] = received[c]
  /\ requested'[c] = requested[c] /\ attempt'[c] = attempt[c]
  /\ \A q \in inflight' : q.call # c

C19_Terminates ==
  /\ \A c \in Calls : (pc[c] # "idle") ~> (pc[c] = "done")
  /\ []OneResponse
  /\ [][\A c \in Calls : pc[c] = "done" => C19_AfterEnd(c)]_vars

\* A range backfill has ended well after two windows, the second of which
\* took all four attempts.
C19_Witness ==
  \E c \in Calls :
    /\ Ended(c, 200) /\ Ranged(c) /\ Cardinality(requested[c]) = 2
    /\ Len(received[c]) = 2 /\ attempt[c] = 4

-----------------------------------------------------------------------------
(* C20: a recent-only backfill is independent of the requested range.  A    *)
(* call for okx or bybit makes one retrying request, without window and     *)
(* without polite delay; two such calls that differ only in their range and *)
(* receive the same bodies have made the same request, and the trades they  *)
(* received are in the table, whether or not their timestamps lie in the    *)
(* requested range.                                                         *)

Recent(c) == req[c].exchange \in {"okx", "bybit"} /\ req[c].symbol # ""

\* Calls c1 and c2 differ in their range only and have received the same.
RangeApart(c1, c2) ==
  /\ Recent(c1) /\ Recent(c2)
  /\ req[c1].symbol = req[c2].symbol /\ req[c1].exchange = req[c2].exchange
  /\ <<req[c1].start, req[c1].end>> # <<req[c2].start, req[c2].end>>
  /\ received[c1] = received[c2]
  /\ Ended(c1, 200) /\ Ended(c2, 200)

====
